---- MODULE Spec2Model ----
(***************************************************************************)
(* Model of streamlit_app.py: the scraper's table selection, the cleaning  *)
(* of the bond table (clean_bond_df, map_tenor, the yield coercion), the   *)
(* spline / fallback chart branch and the JSON export.                     *)
(*                                                                         *)
(* Text is a sequence of one-character strings.  A table cell is a record  *)
(* [na, text]: na = TRUE is a missing cell (NaN in the DataFrame).         *)
(* Years are kept exactly, in twelfths of a year (years12 = 12 * Years).   *)
(***************************************************************************)
EXTENDS Integers, Sequences, FiniteSets

VARIABLES pc, tables_left, raw_df, df, chart, json_output, label, result

vars == <<pc, tables_left, raw_df, df, chart, json_output, label, result>>

(***************************************************************************)
(* Bounds of the model.                                                    *)
(***************************************************************************)
MaxTenorLen == 3
MaxYieldLen == 4
MaxRows == 3
MaxTables == 2

(***************************************************************************)
(* Characters and text helpers (Python str semantics).                     *)
(***************************************************************************)
\* The character U+00B2 (superscript two): str.isdigit() is True for it,
\* str.isdecimal() is False and float() rejects it.
SUP2 == "SUPERSCRIPT_TWO"

DecimalDigits == {"0", "1", "2", "3", "4", "5", "6", "7", "8", "9"}

Whitespace == {" ", "\t"}

LowerCase == <<"a", "b", "c", "d", "e", "f", "g", "h", "i", "j", "k", "l", "m",
               "n", "o", "p", "q", "r", "s", "t", "u", "v", "w", "x", "y", "z">>

UpperCase == <<"A", "B", "C", "D", "E", "F", "G", "H", "I", "J", "K", "L", "M",
               "N", "O", "P", "Q", "R", "S", "T", "U", "V", "W", "X", "Y", "Z">>

\* str.upper() on one character
UpperChar(c) ==
    IF \E i \in 1..Len(LowerCase) : LowerCase[i] = c
    THEN UpperCase[CHOOSE i \in 1..Len(LowerCase) : LowerCase[i] = c]
    ELSE c

\* str.upper()
Upper(s) == [i \in 1..Len(s) |-> UpperChar(s[i])]

\* str.strip(): drop leading and trailing whitespace
Strip(s) ==
    LET keep == {i \in 1..Len(s) : s[i] \notin Whitespace}
    IN  IF keep = {} THEN <<>>
        ELSE LET lo == CHOOSE i \in keep : \A j \in keep : i <= j
                 hi == CHOOSE i \in keep : \A j \in keep : j <= i
             IN  SubSeq(s, lo, hi)

\* str.replace(c, ''): remove every occurrence of the character c
RECURSIVE RemoveChar(_, _)
RemoveChar(s, c) ==
    IF s = <<>> THEN <<>>
    ELSE IF Head(s) = c THEN RemoveChar(Tail(s), c)
         ELSE <<Head(s)>> \o RemoveChar(Tail(s), c)

\* the 'in' operator on strings: sub occurs in s as a contiguous substring
Contains(s, sub) ==
    \E i \in 0..(Len(s) - Len(sub)) :
        \A j \in 1..Len(sub) : s[i + j] = sub[j]

\* str.endswith(c) for a one-character suffix
EndsWith(s, c) == Len(s) > 0 /\ s[Len(s)] = c

\* str.isdigit() on one character
IsDigit(c) == c \in DecimalDigits \cup {SUP2}

\* "".join(filter(str.isdigit, t))
RECURSIVE FilterDigits(_)
FilterDigits(s) ==
    IF s = <<>> THEN <<>>
    ELSE IF IsDigit(Head(s)) THEN <<Head(s)>> \o FilterDigits(Tail(s))
         ELSE FilterDigits(Tail(s))

DigitValue(c) ==
    CASE c = "0" -> 0 [] c = "1" -> 1 [] c = "2" -> 2 [] c = "3" -> 3
      [] c = "4" -> 4 [] c = "5" -> 5 [] c = "6" -> 6 [] c = "7" -> 7
      [] c = "8" -> 8 [] c = "9" -> 9

\* the integer a string of decimal digits denotes
RECURSIVE DigitsValue(_)
DigitsValue(s) ==
    IF s = <<>> THEN 0
    ELSE 10 * DigitsValue(SubSeq(s, 1, Len(s) - 1)) + DigitValue(s[Len(s)])

\* float(val_str) on a non-empty string of isdigit characters: ValueError
\* unless every character is a decimal digit
FloatRaises(val_str) == \E i \in 1..Len(val_str) : val_str[i] \notin DecimalDigits

\* str(cell): a missing cell prints as "nan"
Str(cell) == IF cell.na THEN <<"n", "a", "n">> ELSE cell.text

MONTH == <<"M", "O", "N", "T", "H">>

\* map_tenor(t): [raised, years12]; raised = TRUE when float() raises
map_tenor(cell) ==
    LET t == Strip(Upper(Str(cell)))
        val_str == FilterDigits(t)
    IN  IF val_str = <<>> THEN [raised |-> FALSE, years12 |-> 0]
        ELSE IF FloatRaises(val_str) THEN [raised |-> TRUE, years12 |-> 0]
        ELSE IF Contains(t, MONTH) \/ (EndsWith(t, "M") /\ ~Contains(t, <<"Y">>))
             THEN [raised |-> FALSE, years12 |-> DigitsValue(val_str)]
             ELSE [raised |-> FALSE, years12 |-> 12 * DigitsValue(val_str)]

(***************************************************************************)
(* Yield coercion: clean_df['Yield'].astype(str).str.replace('%', '')      *)
(*   .str.replace('+', '').str.strip(), then pd.to_numeric(coerce).        *)
(* A number is [kind, neg, mant, scale]: kind "num" is the finite value    *)
(* (-1)^neg * mant / 10^scale; "inf", "-inf" and "nan" are the non-finite  *)
(* floats.                                                                 *)
(***************************************************************************)
NaN == [kind |-> "nan", neg |-> FALSE, mant |-> 0, scale |-> 0]

Inf(neg) == [kind |-> IF neg THEN "-inf" ELSE "inf", neg |-> neg, mant |-> 0, scale |-> 0]

\* s with its leading sign character, if any, removed
Unsigned(s) == IF s # <<>> /\ Head(s) \in {"-", "+"} THEN Tail(s) ELSE s

\* the special float words pd.to_numeric accepts, after an optional sign
InfWords == {<<"I", "N", "F">>, <<"I", "N", "F", "I", "N", "I", "T", "Y">>}

NanWords == {<<"N", "A", "N">>}

\* left-to-right scan of an unsigned decimal: digits, at most one point, at
\* least one digit; acc = [ok, seen_point, ndigits, mant, scale]
RECURSIVE ScanDecimal(_, _)
ScanDecimal(s, acc) ==
    IF s = <<>> \/ ~acc.ok THEN acc
    ELSE LET c == Head(s)
         IN  IF c \in DecimalDigits
             THEN ScanDecimal(Tail(s),
                     [acc EXCEPT !.ndigits = @ + 1,
                                 !.mant = 10 * @ + DigitValue(c),
                                 !.scale = IF acc.seen_point THEN @ + 1 ELSE @])
             ELSE IF c = "." /\ ~acc.seen_point
             THEN ScanDecimal(Tail(s), [acc EXCEPT !.seen_point = TRUE])
             ELSE [acc EXCEPT !.ok = FALSE]

\* pd.to_numeric(text, errors='coerce') on one string
to_numeric(s) ==
    LET neg == s # <<>> /\ Head(s) = "-"
        body == Unsigned(s)
        scan == ScanDecimal(body, [ok |-> TRUE, seen_point |-> FALSE,
                                   ndigits |-> 0, mant |-> 0, scale |-> 0])
    IN  IF Upper(body) \in InfWords THEN Inf(neg)
        ELSE IF Upper(body) \in NanWords THEN NaN
        ELSE IF scan.ok /\ scan.ndigits > 0
             THEN [kind |-> "num", neg |-> neg, mant |-> scan.mant, scale |-> scan.scale]
             ELSE NaN

\* the coercion with the '%' left in the text
YieldNumKeepPercent(cell) == to_numeric(Strip(RemoveChar(Str(cell), "+")))

\* lines 61-62 on one cell: the Yield_Num value
YieldNum(cell) == to_numeric(Strip(RemoveChar(RemoveChar(Str(cell), "%"), "+")))

IsNaN(v) == v.kind = "nan"

IsFinite(v) == v.kind = "num"

(***************************************************************************)
(* Tables.  A DataFrame is [kind, columns, rows]: columns is the sequence  *)
(* of column names, rows a sequence of rows, each a sequence of cells, one *)
(* per column.  The scraper's other results are kind "None" and "Error".   *)
(***************************************************************************)
Text(s) == [na |-> FALSE, text |-> s]

Missing == [na |-> TRUE, text |-> <<>>]

MaturityWord == <<"M", "a", "t", "u", "r", "i", "t", "y">>

YieldWord == <<"Y", "i", "e", "l", "d">>

DataFrame(columns, rows) == [kind |-> "DataFrame", columns |-> columns, rows |-> rows]

NoneValue == [kind |-> "None", columns |-> <<>>, rows |-> <<>>]

ErrorString == [kind |-> "Error", columns |-> <<>>, rows |-> <<>>]

\* any("Maturity" in str(col) for col in df.columns)
HasMaturityColumn(t) == \E i \in 1..Len(t.columns) : Contains(t.columns[i], MaturityWord)

\* [c for c in df.columns if word in str(c)]: the indices of those columns
ColumnsWith(t, word) ==
    SelectSeq([i \in 1..Len(t.columns) |-> i], LAMBDA i : Contains(t.columns[i], word))

\* a year of 365 days instead of 360
Days365(years12) == (years12 * 365) \div 12

\* (clean_df['Years'] * 360).astype(int)
Days(years12) == (years12 * 360) \div 12

\* np.exp(-(Yield_Num / 100) * Years), by class: only whether it is NaN decides
\* what dropna() does.  inf * 0 is NaN, exp(-inf) is 0, exp(inf) is inf.
Discount_Rate(y, years12) ==
    CASE y.kind = "nan" -> "nan"
      [] y.kind = "num" -> "finite"
      [] y.kind = "inf" -> IF years12 = 0 THEN "nan" ELSE "zero"
      [] y.kind = "-inf" -> IF years12 = 0 THEN "nan" ELSE "inf"

\* the row of clean_df built from row i of the table (lines 57-79); idx is
\* the DataFrame index label the row keeps
CleanRow(t, i, maturity_col, yield_col) ==
    LET tenor == t.rows[i][maturity_col]
        yld == t.rows[i][yield_col]
        y == YieldNum(yld)
        years12 == map_tenor(tenor).years12
    IN  [idx |-> i, Tenor |-> tenor, Yield |-> yld, Yield_Num |-> y,
         years12 |-> years12, Days |-> Days(years12),
         Discount_Rate |-> Discount_Rate(y, years12)]

\* DataFrame.dropna(): a row is dropped when any of its columns is missing
HasNA(r) == r.Tenor.na \/ r.Yield.na \/ IsNaN(r.Yield_Num) \/ r.Discount_Rate = "nan"

dropna(rows) == SelectSeq(rows, LAMBDA r : ~HasNA(r))

IndexPermutations(n) ==
    {p \in [1..n -> 1..n] : \A i, j \in 1..n : i # j => p[i] # p[j]}

IsSortedByYears(rows) ==
    \A i, j \in 1..Len(rows) : i < j => rows[i].years12 <= rows[j].years12

\* DataFrame.sort_values("Years"): the default kind is quicksort, which does
\* not fix the order of rows with equal keys; every ascending arrangement of
\* the rows is a possible result
sort_values(rows) ==
    {s \in {[i \in 1..Len(rows) |-> rows[p[i]]] : p \in IndexPermutations(Len(rows))} :
        IsSortedByYears(s)}

\* clean_bond_df raises: IndexError when no column name contains 'Yield' or
\* 'Maturity' (lines 54-55), ValueError out of map_tenor (line 74)
CleanRaises(t) ==
    \/ ColumnsWith(t, YieldWord) = <<>>
    \/ ColumnsWith(t, MaturityWord) = <<>>
    \/ \E i \in 1..Len(t.rows) :
          map_tenor(t.rows[i][ColumnsWith(t, MaturityWord)[1]]).raised

\* the rows of clean_df before dropna() and sort_values()
CleanRows(t) ==
    LET yield_col == ColumnsWith(t, YieldWord)[1]
        maturity_col == ColumnsWith(t, MaturityWord)[1]
    IN  [i \in 1..Len(t.rows) |-> CleanRow(t, i, maturity_col, yield_col)]

\* clean_bond_df(df): the set of DataFrames it may return
clean_bond_df(t) == sort_values(dropna(CleanRows(t)))

(***************************************************************************)
(* The inputs the model draws: the cells a scraped table may hold and the  *)
(* column layouts of the page's tables.                                    *)
(***************************************************************************)
TenorCells ==
    {Text(<<"1", "Y">>), Text(<<"1", "2", "M">>), Text(<<"6", "M">>),
     Text(<<"N", "/", "A">>), Text(<<"2", SUP2>>), Missing}

YieldCells ==
    {Text(<<"4", "%">>), Text(<<"-", "1">>),
     Text(<<"n", "/", "a">>), Text(<<"i", "n", "f">>)}

ColMaturity == <<"R", "e", "s", ".", " ">> \o MaturityWord

ColYield == YieldWord

ColPrice == <<"P", "r", "i", "c", "e">>

ColCountry == <<"C", "o", "u", "n", "t", "r", "y">>

ColumnLayouts == {<<ColMaturity, ColYield>>, <<ColMaturity, ColPrice>>, <<ColCountry, ColYield>>}

\* every sequence over S of length at most n
SeqsUpTo(S, n) == UNION {[1..k -> S] : k \in 0..n}

\* the rows of a scraped table: the first cell of a row is a tenor cell, the
\* second a yield cell
TableRows == SeqsUpTo({<<t, y>> : t \in TenorCells, y \in YieldCells}, MaxRows)

NoFrame == <<>>

(***************************************************************************)
(* The application, top to bottom.                                         *)
(***************************************************************************)
Init ==
    /\ pc = "start"
    /\ tables_left = 0
    /\ raw_df = NoneValue
    /\ df = NoFrame
    /\ chart = "none"
    /\ json_output = <<>>
    /\ label = Missing
    /\ result = [raised |-> FALSE, years12 |-> 0]

\* lines 26-34: the driver loads the page and finds its tables; an exception
\* (no driver, timeout waiting for a table) returns the error string
FindTables ==
    /\ pc = "start"
    /\ \/ /\ raw_df' = ErrorString
          /\ pc' = "scraped"
          /\ UNCHANGED tables_left
       \/ /\ \E n \in 1..MaxTables : tables_left' = n
          /\ pc' = "loop"
          /\ UNCHANGED raw_df
    /\ UNCHANGED <<df, chart, json_output, label, result>>

\* lines 36-44: one iteration of the loop over the tables; the table is read
\* here, and the first one with a Maturity column is the target (the loop's
\* local state ends with the break)
ReadTable ==
    /\ pc = "loop"
    /\ tables_left > 0
    /\ \E columns \in ColumnLayouts, rows \in TableRows :
          LET t == DataFrame(columns, rows)
          IN  IF HasMaturityColumn(t)
              THEN /\ raw_df' = t
                   /\ pc' = "scraped"
                   /\ tables_left' = 0
              ELSE /\ tables_left' = tables_left - 1
                   /\ UNCHANGED <<pc, raw_df>>
    /\ UNCHANGED <<df, chart, json_output, label, result>>

\* lines 46-47: the loop ended without a target: return None
ReturnNone ==
    /\ pc = "loop"
    /\ tables_left = 0
    /\ raw_df' = NoneValue
    /\ pc' = "scraped"
    /\ UNCHANGED <<tables_left, df, chart, json_output, label, result>>

\* lines 102-103: df = clean_bond_df(raw_df)
Clean ==
    /\ pc = "scraped"
    /\ raw_df.kind = "DataFrame"
    /\ IF CleanRaises(raw_df)
       THEN /\ pc' = "clean_raised"
            /\ UNCHANGED df
       ELSE /\ df' \in clean_bond_df(raw_df)
            /\ pc' = "cleaned"
    /\ UNCHANGED <<tables_left, raw_df, chart, json_output, label, result>>

\* lines 152-153: anything but a DataFrame ends in st.error
ScraperFailed ==
    /\ pc = "scraped"
    /\ raw_df.kind # "DataFrame"
    /\ pc' = "error"
    /\ UNCHANGED <<tables_left, raw_df, df, chart, json_output, label, result>>

\* CubicSpline(x, y) raises ValueError unless x is strictly increasing and y
\* is finite
SplineRaises(rows) ==
    \/ \E i \in 1..(Len(rows) - 1) : rows[i].years12 >= rows[i + 1].years12
    \/ \E i \in 1..Len(rows) : ~IsFinite(rows[i].Yield_Num)

\* len(df) >= 3
EnoughPoints(rows) == Len(rows) >= 3

\* lines 105-130: the table, then the spline chart or the fallback chart
Chart ==
    /\ pc = "cleaned"
    /\ IF EnoughPoints(df)
       THEN IF SplineRaises(df)
            THEN /\ pc' = "spline_raised"
                 /\ UNCHANGED chart
            ELSE /\ chart' = "spline"
                 /\ pc' = "charted"
       ELSE /\ chart' = "fallback"
            /\ pc' = "charted"
    /\ UNCHANGED <<tables_left, raw_df, df, json_output, label, result>>

\* lines 142-147: the records of the export
Records(rows) ==
    [i \in 1..Len(rows) |->
        [tenor |-> rows[i].Tenor, days |-> rows[i].Days,
         rate_pct |-> rows[i].Yield_Num, df |-> rows[i].Discount_Rate]]

\* lines 133-150: the JSON export
Export ==
    /\ pc = "charted"
    /\ json_output' = Records(df)
    /\ pc' = "exported"
    /\ UNCHANGED <<tables_left, raw_df, df, chart, label, result>>

Next ==
    \/ FindTables
    \/ ReadTable
    \/ ReturnNone
    \/ Clean
    \/ ScraperFailed
    \/ Chart
    \/ Export

Spec == Init /\ [][Next]_vars

(***************************************************************************)
(* map_tenor alone, on every label over a small alphabet and on the labels *)
(* the documentation names.                                                *)
(***************************************************************************)
TenorAlphabet == {"3", "6", "Y", "M", "m", " ", SUP2}

NamedTenors ==
    {<<"3", "M">>, <<"6", " ", "M", "O", "N", "T", "H">>, <<"1", "0", "Y">>,
     <<"2", " ", "Y", "e", "a", "r">>, <<"N", "/", "A">>, <<"5", "Y", "6", "M">>,
     <<"6", " ", "m", "o", "n", "t", "h", "l", "y">>}

TenorInputs ==
    {Text(s) : s \in SeqsUpTo(TenorAlphabet, MaxTenorLen) \cup NamedTenors} \cup {Missing}

InitTenor ==
    /\ pc = "tenor_in"
    /\ label \in TenorInputs
    /\ result = [raised |-> FALSE, years12 |-> 0]
    /\ tables_left = 0
    /\ raw_df = NoneValue
    /\ df = NoFrame
    /\ chart = "none"
    /\ json_output = <<>>

\* clean_df['Tenor'].apply(map_tenor) on one cell
ApplyMapTenor ==
    /\ pc = "tenor_in"
    /\ result' = map_tenor(label)
    /\ pc' = "tenor_out"
    /\ UNCHANGED <<tables_left, raw_df, df, chart, json_output, label>>

NextTenor == ApplyMapTenor

SpecTenor == InitTenor /\ [][NextTenor]_vars

(***************************************************************************)
(* The yield coercion alone, on every text over a small alphabet.          *)
(***************************************************************************)
YieldAlphabet == {"0", "4", ".", "-", "%", "+", " "}

YieldInputs == {Text(s) : s \in SeqsUpTo(YieldAlphabet, MaxYieldLen)} \cup {Missing}

InitYield ==
    /\ pc = "yield_in"
    /\ label \in YieldInputs
    /\ result = NaN
    /\ tables_left = 0
    /\ raw_df = NoneValue
    /\ df = NoFrame
    /\ chart = "none"
    /\ json_output = <<>>

\* lines 61-62 on one cell
ApplyYieldNum ==
    /\ pc = "yield_in"
    /\ result' = YieldNum(label)
    /\ pc' = "yield_out"
    /\ UNCHANGED <<tables_left, raw_df, df, chart, json_output, label>>

NextYield == ApplyYieldNum

SpecYield == InitYield /\ [][NextYield]_vars

(***************************************************************************)
(* What the documentation says, stated without the code's helpers where    *)
(* the two could differ.                                                   *)
(***************************************************************************)
\* the label as the documentation reads it: uppercased and trimmed
DocLabel(cell) == Strip(Upper(Str(cell)))

\* the label's decimal digits, in order
DocDigits(cell) == SelectSeq(DocLabel(cell), LAMBDA c : c \in DecimalDigits)

\* the documented unit rule: months when the label contains "MONTH", or ends
\* with "M" and contains no "Y"
DocIsMonths(cell) ==
    LET t == DocLabel(cell)
    IN  \/ Contains(t, MONTH)
        \/ (Len(t) > 0 /\ t[Len(t)] = "M" /\ \A i \in 1..Len(t) : t[i] # "Y")

\* the documented result of parse_tenor, in twelfths of a year
DocYears12(cell) ==
    IF DocDigits(cell) = <<>> THEN 0
    ELSE IF DocIsMonths(cell) THEN DigitsValue(DocDigits(cell))
    ELSE 12 * DigitsValue(DocDigits(cell))

AfterClean == {"cleaned", "charted", "spline_raised", "exported"}

HasBothColumns(t) ==
    /\ t.kind = "DataFrame"
    /\ \E i \in 1..Len(t.columns) : Contains(t.columns[i], MaturityWord)
    /\ \E i \in 1..Len(t.columns) : Contains(t.columns[i], YieldWord)

\* the tenor and yield cells of input row i (tables of the model keep the
\* tenor in the first column and the yield in the second)
TenorCell(i) == raw_df.rows[i][1]

YieldCell(i) == raw_df.rows[i][2]

\* a sequence with its i-th element removed
Without(seq, i) == SubSeq(seq, 1, i - 1) \o SubSeq(seq, i + 1, Len(seq))

\* the rows of a cleaned table without their index labels
Content(rows) ==
    [k \in 1..Len(rows) |->
        [Tenor |-> rows[k].Tenor, Yield |-> rows[k].Yield,
         Yield_Num |-> rows[k].Yield_Num, years12 |-> rows[k].years12,
         Days |-> rows[k].Days, Discount_Rate |-> rows[k].Discount_Rate]]

DistinctYears(rows) == Cardinality({rows[k].years12 : k \in 1..Len(rows)})

\* C1: a row whose yield text fails numeric parsing is dropped: it is not in
\* the output, its presence does not abort the call, and the output is the
\* output for the same table with that row removed.
C1_UnparseableYieldRowDropped ==
    (pc \in AfterClean \cup {"clean_raised"} /\ HasBothColumns(raw_df)) =>
        \A i \in 1..Len(raw_df.rows) :
            IsNaN(YieldNum(YieldCell(i))) =>
                LET without == DataFrame(raw_df.columns, Without(raw_df.rows, i))
                IN  /\ pc = "clean_raised" => CleanRaises(without)
                    /\ pc \in AfterClean =>
                          /\ \A k \in 1..Len(df) : df[k].idx # i
                          /\ \E d \in clean_bond_df(without) : Content(d) = Content(df)

\* C2: the output of clean_bond_df is sorted non-decreasing by Years, and
\* rows with equal Years keep their relative input order.
C2_SortedAndStable ==
    pc \in AfterClean =>
        \A a, b \in 1..Len(df) :
            a < b =>
                /\ df[a].years12 <= df[b].years12
                /\ df[a].years12 = df[b].years12 => df[a].idx < df[b].idx

\* C3: with fewer than 3 distinct Years values the spline is not constructed:
\* the fallback chart is drawn and the pipeline goes on to the export.
C3_FewDistinctYearsFallback ==
    (pc \in {"charted", "spline_raised", "exported"} /\ DistinctYears(df) < 3) =>
        (pc # "spline_raised" /\ chart = "fallback")

\* C4: every row of the output of clean_bond_df has a finite rate.
C4_OutputRatesFinite ==
    pc \in AfterClean => \A k \in 1..Len(df) : IsFinite(df[k].Yield_Num)

\* C5: map_tenor never raises and returns the documented value: 0 without a
\* decimal digit, val/12 for a month label, val otherwise; "3M" is 0.25,
\* "6 MONTH" 0.5, "10Y" 10, "2 Year" 2, "N/A" 0 and "5Y6M" has val 56 (a
\* label with a "Y", so 56 years).
C5_MapTenorTotal ==
    pc = "tenor_out" =>
        /\ ~result.raised
        /\ result.years12 = DocYears12(label)
        /\ label = Text(<<"3", "M">>) => result.years12 = 3
        /\ label = Text(<<"6", " ", "M", "O", "N", "T", "H">>) => result.years12 = 6
        /\ label = Text(<<"1", "0", "Y">>) => result.years12 = 120
        /\ label = Text(<<"2", " ", "Y", "e", "a", "r">>) => result.years12 = 24
        /\ label = Text(<<"N", "/", "A">>) => result.years12 = 0
        /\ label = Text(<<"5", "Y", "6", "M">>) => result.years12 = 12 * 56

\* C7: a row whose yield parses to a number is kept whatever its tenor cell:
\* with a tenor without digits, or a missing one, it is in the output with
\* Years = 0 and Days = 0.
C7_DegenerateTenorKept ==
    pc \in AfterClean =>
        \A i \in 1..Len(raw_df.rows) :
            IsFinite(YieldNum(YieldCell(i))) =>
                /\ \E k \in 1..Len(df) : df[k].idx = i
                /\ (TenorCell(i).na \/ DocDigits(TenorCell(i)) = <<>>) =>
                      \E k \in 1..Len(df) :
                          df[k].idx = i /\ df[k].years12 = 0 /\ df[k].Days = 0

\* C9: clean_bond_df never fails on a table with both columns: the output has
\* at most as many rows as the input, each from a distinct input row, and an
\* empty table gives an empty curve, the fallback chart and the export.
C9_CleanNeverFails ==
    HasBothColumns(raw_df) =>
        /\ pc # "clean_raised"
        /\ pc \in AfterClean =>
              /\ Len(df) <= Len(raw_df.rows)
              /\ \A k \in 1..Len(df) : df[k].idx \in 1..Len(raw_df.rows)
              /\ \A a, b \in 1..Len(df) : a # b => df[a].idx # df[b].idx
              /\ raw_df.rows = <<>> =>
                    /\ df = <<>>
                    /\ pc # "spline_raised"
                    /\ pc \in {"charted", "exported"} => chart = "fallback"

\* C10: a DataFrame handed to clean_bond_df has a Maturity column and a Yield
\* column, so the column lookup never fails; any other scraper result ends in
\* the error state without clean_bond_df being called.
C10_CleanGetsBothColumns ==
    /\ (pc = "scraped" /\ raw_df.kind = "DataFrame") => HasBothColumns(raw_df)
    /\ pc \in AfterClean \cup {"clean_raised"} => raw_df.kind = "DataFrame"
    /\ pc = "error" => (raw_df.kind # "DataFrame" /\ df = NoFrame)

\* the characters the documentation calls decoration, and whitespace
Decoration == {"%", "+"} \cup Whitespace

\* a decimal numeral: an optional "-", then digits with at most one point and
\* at least one digit
IsDecimalNumeral(n) ==
    LET body == IF n # <<>> /\ n[1] = "-" THEN SubSeq(n, 2, Len(n)) ELSE n
    IN  /\ \A i \in 1..Len(body) : body[i] \in DecimalDigits \cup {"."}
        /\ Cardinality({i \in 1..Len(body) : body[i] = "."}) <= 1
        /\ \E i \in 1..Len(body) : body[i] \in DecimalDigits

\* the value of a decimal numeral, read off its text: the digits as an
\* integer, over ten to the number of characters after the point
NumeralValue(n) ==
    LET body == IF n[1] = "-" THEN SubSeq(n, 2, Len(n)) ELSE n
        points == {i \in 1..Len(body) : body[i] = "."}
    IN  [neg |-> n[1] = "-",
         mant |-> DigitsValue(SelectSeq(body, LAMBDA c : c # ".")),
         scale |-> IF points = {} THEN 0 ELSE Len(body) - (CHOOSE i \in points : TRUE)]

RECURSIVE Pow10(_)
Pow10(k) == IF k = 0 THEN 1 ELSE 10 * Pow10(k - 1)

\* two finite values are the same number
SameNumber(a, b) ==
    /\ a.mant * Pow10(b.scale) = b.mant * Pow10(a.scale)
    /\ a.neg = b.neg \/ a.mant = 0

\* C6: a yield cell made of a decimal numeral with "%", "+" and whitespace
\* around it coerces to exactly the numeral's value, sign included.
C6_DecoratedYieldValue ==
    pc = "yield_out" =>
        \A i \in 0..Len(Str(label)), j \in 0..Len(Str(label)) :
            LET s == Str(label)
                before == SubSeq(s, 1, i)
                numeral == SubSeq(s, i + 1, j)
                after == SubSeq(s, j + 1, Len(s))
            IN  (/\ i < j
                 /\ \A k \in 1..Len(before) : before[k] \in Decoration
                 /\ \A k \in 1..Len(after) : after[k] \in Decoration
                 /\ IsDecimalNumeral(numeral)) =>
                    /\ result.kind = "num"
                    /\ SameNumber(result, NumeralValue(numeral))
                    /\ result.neg = (numeral[1] = "-")

\* a decorated negative numeral has been coerced
C6_Witness ==
    /\ pc = "yield_out"
    /\ label = Text(<<"+", "-", "4", "%">>)
    /\ result.kind = "num"
    /\ result.neg
    /\ result.mant = 4

\* C8: for every point of a built curve Days = floor(Years * 360) and
\* Years >= 0: Days is 30 * val for a month tenor and 360 * val for a year
\* tenor of magnitude val.
C8_DaysFromYears ==
    pc \in AfterClean =>
        \A k \in 1..Len(df) :
            /\ df[k].years12 >= 0
            /\ df[k].Days >= 0
            /\ 12 * df[k].Days <= 360 * df[k].years12
            /\ 360 * df[k].years12 < 12 * (df[k].Days + 1)
            /\ df[k].Days =
                  IF DocIsMonths(df[k].Tenor)
                  THEN 30 * DigitsValue(DocDigits(df[k].Tenor))
                  ELSE 360 * DigitsValue(DocDigits(df[k].Tenor))

\* a built curve with a month point and a year point
C8_Witness ==
    /\ pc = "cleaned"
    /\ \E k \in 1..Len(df) : df[k].Tenor = Text(<<"6", "M">>) /\ df[k].Days = 180
    /\ \E k \in 1..Len(df) : df[k].Tenor = Text(<<"1", "Y">>) /\ df[k].Days = 360

====
